---- MODULE Spec2Model ----
(***************************************************************************)
(* Model of the datalayer wrappers: the three networked wrappers           *)
(* (mysql_data_manager.py, mysql_connector_manager.py, classes.py) and the *)
(* two file-based wrappers (sqlite3_data_manager.py, classes.py).          *)
(* A behaviour is a sequence of calls made by one caller on one wrapper    *)
(* instance; each call runs init_conn, then the statement steps, and ends  *)
(* in pc = "done" with its result, its driver-call trace and its log.      *)
(* ConcSpec has several callers instead, whose calls interleave.           *)
(***************************************************************************)
EXTENDS Integers, Sequences, FiniteSets, TLC

VARIABLES
    variant,      \* the wrapper class of the instance
    sql_script,   \* self.sql_script of the file-based wrappers (0 = None, n = creates n tables)
    tables,       \* number of tables in the database file
    bootstraps,   \* number of times executescript(self.sql_script) was submitted
    store,        \* committed rows of the table, in insertion order
    calls,        \* number of public calls made so far
    openConns,    \* connections opened by connect() and not closed
    pc,           \* position of the current call
    op,           \* public method being called
    attempts,     \* init_conn parameter
    delay,        \* init_conn parameter
    failPlan,     \* connect fails this many times, then succeeds
    attempt,      \* init_conn local counter
    connectCalls, \* number of connect() calls made by the current call
    waits,        \* arguments of the sleep() calls of the current call
    mydb,         \* what init_conn gave the caller: "unset", "conn" or "None"
    sqlstring,    \* the statement: [kind, lit]
    val,          \* the value payload: [shape, rows]
    pending,      \* rows as seen inside the connection's open transaction
    rowcount,     \* cursor.rowcount
    storeAtCall,  \* committed rows when the call started
    events,       \* driver calls of the current call, in order
    log,          \* logger calls of the current call, in order
    result,       \* outcome of the current call
    tpc,          \* concurrent callers: position of each caller's call
    top,          \* concurrent callers: public method each caller runs
    tstmt,        \* concurrent callers: statements of the script each caller's executescript has run
    tmydb,        \* concurrent callers: the variable that holds each call's handle
    conns         \* concurrent callers: every connection handle opened so far

vars == <<variant, sql_script, tables, bootstraps, store, calls, openConns, pc, op,
          attempts, delay, failPlan, attempt, connectCalls, waits, mydb, sqlstring,
          val, pending, rowcount, storeAtCall, events, log, result,
          tpc, top, tstmt, tmydb, conns>>

\* the state of the instance, the database and the single caller
callVars == <<variant, sql_script, tables, bootstraps, store, calls, openConns, pc, op,
              attempts, delay, failPlan, attempt, connectCalls, waits, mydb, sqlstring,
              val, pending, rowcount, storeAtCall, events, log, result>>

(***************************************************************************)
(* Bounds of the model                                                     *)
(***************************************************************************)
MaxAttempts == 3   \* explicit attempt bounds run from -1 to MaxAttempts
MaxDelay    == 2   \* base delays run from 0 to MaxDelay
MaxFails    == 4   \* connect fails 0..MaxFails times before it succeeds
MaxCalls    == 2   \* public calls per behaviour
MaxRows     == 2   \* rows the table can hold
MaxBatch    == 2   \* longest list payload
MaxSets     == 2   \* result sets a stored procedure produces
MaxThreads  == 2   \* concurrent callers of one wrapper instance

(***************************************************************************)
(* Program constants                                                       *)
(***************************************************************************)
DefaultAttempts == 3     \* init_conn(attempts=3, ...)
DefaultDelay    == 2     \* init_conn(..., delay=2)
TableThreshold  == 2     \* len(list_tables) < 2
SmallIntMin     == -5    \* ints the interpreter keeps as singletons: identity
SmallIntMax     == 256   \* (the `is` of init_conn) coincides with equality there

MysqlDataManagerV       == "mysql_data_manager.MysqlDataManager"
MysqlConnectorManagerV  == "mysql_connector_manager.MysqlConnectorManager"
ClassesMysqlV           == "classes.MysqlConnectorManager"
SqliteDataManagerV      == "sqlite3_data_manager.SqliteDataManager"
ClassesSqliteV          == "classes.SqliteDatamanager"

Networked == {MysqlDataManagerV, MysqlConnectorManagerV, ClassesMysqlV}
FileBased == {SqliteDataManagerV, ClassesSqliteV}
Variants  == Networked \cup FileBased

(***************************************************************************)
(* Values                                                                  *)
(***************************************************************************)
Vals == {1, 2}

Pending == [kind |-> "pending", type |-> "none", int |-> 0, rows |-> <<>>]
ReturnConn == [kind |-> "return", type |-> "conn", int |-> 0, rows |-> <<>>]
ReturnNone == [kind |-> "return", type |-> "None", int |-> 0, rows |-> <<>>]
ReturnInt(n) == [kind |-> "return", type |-> "int", int |-> n, rows |-> <<>>]
\* a read answering None where no row matched
ReturnNoneIfEmpty(r) ==
    [kind |-> "return", type |-> IF r = <<>> THEN "None" ELSE "list", int |-> 0,
     rows |-> r]
ReturnList(r) == [kind |-> "return", type |-> "list", int |-> 0, rows |-> r]
Raise(err) == [kind |-> "raise", type |-> err, int |-> 0, rows |-> <<>>]

LogRec(level, text, a, b) == [level |-> level, text |-> text, a |-> a, b |-> b]

RECURSIVE Pow(_, _)
Pow(b, e) ==
    IF e <= 0 THEN 1
    ELSE IF e % 2 = 0 THEN LET h == Pow(b, e \div 2) IN h * h
    ELSE b * Pow(b, e - 1)

\* s[lo] + ... + s[hi], halving the range
RECURSIVE SumRange(_, _, _)
SumRange(s, lo, hi) ==
    IF lo > hi THEN 0
    ELSE IF lo = hi THEN s[lo]
    ELSE LET mid == (lo + hi) \div 2
         IN SumRange(s, lo, mid) + SumRange(s, mid + 1, hi)

SumSeq(s) == SumRange(s, 1, Len(s))

Count(s, x) == Cardinality({i \in 1..Len(s) : s[i] = x})

Min(a, b) == IF a < b THEN a ELSE b

(***************************************************************************)
(* init_conn of the networked wrappers                                     *)
(***************************************************************************)
\* a loop whose body runs at least once
LoopCondAtLeastOnce(a, n) == a = 1 \/ a < n + 1

\* the loop bound one short
LoopCondShort(a, n) == a < n

\* while attempt < attempts + 1
LoopCond(a, n) == a < n + 1

\* `attempts is attempt`: object identity of two ints. Equal ints inside the
\* interpreter's singleton range are the same object; outside it the outcome
\* depends on the interpreter (CPython: distinct objects).
IsOutcomes(n, a) ==
    IF n # a THEN {FALSE}
    ELSE IF n \in SmallIntMin..SmallIntMax THEN {TRUE}
    ELSE {TRUE, FALSE}

\* a linear backoff
BackoffLinear(d, a) == d * a

\* sleep(delay ** attempt)
Backoff(d, a) == Pow(d, a)

\* what the last failed attempt does: raise err / return None
ExhaustedOutcome(v) ==
    IF v = MysqlDataManagerV THEN Raise("DriverError") ELSE ReturnNone

\* level of the "Retrying" record: logger.info / logger.error
RetryLogLevel(v) == IF v = ClassesMysqlV THEN "ERROR" ELSE "INFO"

\* the attempts left after attempt a
RemainingAttempts(a, n) == n - a

\* second number of the "Retrying (%d/%d)" record: attempts - 1
RetriesShown(a, n) == n - 1

\* a call that ends by handing None on when init_conn gave None
AfterInitConnNoneEnds(o, r) ==
    IF o = "init_conn" \/ r.kind = "raise" \/ r.type = "None" THEN "done" ELSE "cursor"

\* where a call goes once init_conn has handed back r
AfterInitConn(o, r) ==
    IF o = "init_conn" \/ r.kind = "raise" THEN "done" ELSE "cursor"

InitConnReturn(r) ==
    /\ pc' = AfterInitConn(op, r)
    /\ mydb' = IF r.kind = "raise" THEN "unset" ELSE r.type
    /\ result' = IF AfterInitConn(op, r) = "done" THEN r ELSE Pending

InitConnAttempt ==
    /\ pc = "init_conn"
    /\ variant \in Networked
    /\ LoopCond(attempt, attempts)
    /\ connectCalls' = connectCalls + 1
    /\ IF connectCalls >= failPlan
       THEN \* return mysql.connector.connect(**self.config)
            /\ events' = Append(events, "connect_ok")
            /\ openConns' = openConns + 1
            /\ pending' = store
            /\ InitConnReturn(ReturnConn)
            /\ UNCHANGED <<attempt, waits, log>>
       ELSE \E same \in IsOutcomes(attempts, attempt) :
            IF same
            THEN /\ events' = Append(events, "connect_fail")
                 /\ log' = Append(log, LogRec("ERROR", "Failed to connect", 0, 0))
                 /\ InitConnReturn(ExhaustedOutcome(variant))
                 /\ UNCHANGED <<attempt, waits, openConns, pending>>
            ELSE /\ events' = events \o <<"connect_fail", "sleep">>
                 /\ log' = Append(log, LogRec(RetryLogLevel(variant), "Retrying",
                                              attempt, RetriesShown(attempt, attempts)))
                 /\ waits' = Append(waits, Backoff(delay, attempt))
                 /\ attempt' = attempt + 1
                 /\ UNCHANGED <<pc, mydb, result, openConns, pending>>
    /\ UNCHANGED <<tpc, top, tstmt, tmydb, conns, variant, sql_script, tables, bootstraps, store, calls, op, attempts,
                   delay, failPlan, sqlstring, val, rowcount, storeAtCall>>

\* the loop ends without a return inside it: `return None`, explicit in the
\* MysqlConnectorManager variants, implicit in MysqlDataManager
InitConnExhausted ==
    /\ pc = "init_conn"
    /\ variant \in Networked
    /\ ~LoopCond(attempt, attempts)
    /\ InitConnReturn(ReturnNone)
    /\ UNCHANGED <<tpc, top, tstmt, tmydb, conns, variant, sql_script, tables, bootstraps, store, calls, openConns, op,
                   attempts, delay, failPlan, attempt, connectCalls, waits, sqlstring,
                   val, pending, rowcount, storeAtCall, events, log>>

(***************************************************************************)
(* The calls                                                               *)
(***************************************************************************)
NoStatement == [kind |-> "none", lit |-> <<1, 1>>, table |-> "t"]
NoPayload == [shape |-> "None", rows |-> <<>>, sets |-> 0]

StartCall(o, n, d, k, s, p) ==
    /\ pc = "idle"
    /\ calls < MaxCalls
    /\ calls' = calls + 1
    /\ op' = o
    /\ attempts' = n
    /\ delay' = d
    /\ failPlan' = k
    /\ sqlstring' = s
    /\ val' = p
    /\ pc' = "init_conn"
    /\ attempt' = 1
    /\ connectCalls' = 0
    /\ waits' = <<>>
    /\ mydb' = "unset"
    /\ pending' = <<>>
    /\ rowcount' = -1
    /\ storeAtCall' = store
    /\ events' = <<>>
    /\ log' = <<>>
    /\ result' = Pending
    /\ UNCHANGED <<tpc, top, tstmt, tmydb, conns, variant, sql_script, tables, bootstraps, store, openConns>>

SmallAttempts == (0 - 1)..MaxAttempts
LargeAttempts == {SmallIntMax, SmallIntMax + 1}

\* init_conn(attempts=n, delay=d) called directly, as the test suite does
CallInitConn ==
    /\ pc = "idle"
    /\ variant \in Networked
    /\ \E n \in SmallAttempts, d \in 0..MaxDelay, k \in 0..MaxFails :
          StartCall("init_conn", n, d, k, NoStatement, NoPayload)

\* the same with an attempt bound at the edge of the interpreter's singleton
\* ints; the connect fails until the last attempt, or throughout
CallInitConnLarge ==
    /\ pc = "idle"
    /\ variant \in Networked
    /\ \E n \in LargeAttempts, d \in 0..1, k \in {0, 1} :
          StartCall("init_conn", n, d, n - 1 + k, NoStatement, NoPayload)

\* the public calls that leave the handle with their caller: init_conn
\* returns it, init_database works on the one it is given
HandleOps == {"init_conn", "init_database"}

\* conn.close() by the caller that asked init_conn for the handle
CallerClose ==
    /\ pc = "done"
    /\ op \in HandleOps
    /\ mydb = "conn"
    /\ openConns' = openConns - 1
    /\ mydb' = "closed"
    /\ UNCHANGED <<tpc, top, tstmt, tmydb, conns, variant, sql_script, tables, bootstraps, store, calls, pc, op,
                   attempts, delay, failPlan, attempt, connectCalls, waits, sqlstring,
                   val, pending, rowcount, storeAtCall, events, log, result>>

\* the call is over: the caller has its result and may call again
Finish ==
    /\ pc = "done"
    /\ ~(op \in HandleOps /\ mydb = "conn")
    /\ pc' = "idle"
    /\ op' = "none"
    /\ attempts' = DefaultAttempts
    /\ delay' = DefaultDelay
    /\ failPlan' = 0
    /\ attempt' = 1
    /\ connectCalls' = 0
    /\ waits' = <<>>
    /\ mydb' = "unset"
    /\ sqlstring' = NoStatement
    /\ val' = NoPayload
    /\ pending' = <<>>
    /\ rowcount' = -1
    /\ storeAtCall' = store
    /\ events' = <<>>
    /\ log' = <<>>
    /\ result' = Pending
    /\ UNCHANGED <<tpc, top, tstmt, tmydb, conns, variant, sql_script, tables, bootstraps, store, calls, openConns>>

\* the threads that call the one wrapper instance
Threads == 1..MaxThreads

Init ==
    /\ variant \in Variants
    /\ sql_script \in IF variant \in FileBased THEN 0..TableThreshold ELSE {0}
    /\ tables \in IF variant \in FileBased THEN {0, TableThreshold} ELSE {0}
    /\ bootstraps = 0
    /\ store = <<>>
    /\ calls = 0
    /\ openConns = 0
    /\ pc = "idle"
    /\ op = "none"
    /\ attempts = DefaultAttempts
    /\ delay = DefaultDelay
    /\ failPlan = 0
    /\ attempt = 1
    /\ connectCalls = 0
    /\ waits = <<>>
    /\ mydb = "unset"
    /\ sqlstring = NoStatement
    /\ val = NoPayload
    /\ pending = <<>>
    /\ rowcount = -1
    /\ storeAtCall = <<>>
    /\ events = <<>>
    /\ log = <<>>
    /\ result = Pending
    /\ tpc = [t \in Threads |-> "idle"]
    /\ top = [t \in Threads |-> "none"]
    /\ tstmt = [t \in Threads |-> 0]
    /\ tmydb = [t \in Threads |-> 0]
    /\ conns = <<>>

(***************************************************************************)
(* The database as the driver shows it                                     *)
(***************************************************************************)
\* a statement that leaves the table as it was
ApplyNothing(kind, p, t) == t

\* one statement of the given kind with parameters p = <<a, b>> on table t:
\* insert a row a / set every a to b / delete every a
ApplyOne(kind, p, t) ==
    CASE kind = "insert" -> Append(t, p[1])
      [] kind = "update" -> [i \in 1..Len(t) |-> IF t[i] = p[1] THEN p[2] ELSE t[i]]
      [] kind = "delete" -> SelectSeq(t, LAMBDA x : x # p[1])
      [] OTHER -> t

\* cursor.rowcount after that statement. The networked server counts the rows
\* an UPDATE changed, the file-based engine the rows it matched.
AffectedOne(v, kind, p, t) ==
    CASE kind = "insert" -> 1
      [] kind = "update" -> IF v \in Networked /\ p[1] = p[2] THEN 0 ELSE Count(t, p[1])
      [] kind = "delete" -> Count(t, p[1])
      [] OTHER -> -1

RECURSIVE ApplyMany(_, _, _)
ApplyMany(kind, ps, t) ==
    IF ps = <<>> THEN t ELSE ApplyMany(kind, Tail(ps), ApplyOne(kind, Head(ps), t))

RECURSIVE AffectedMany(_, _, _, _)
AffectedMany(v, kind, ps, t) ==
    IF ps = <<>> THEN 0
    ELSE AffectedOne(v, kind, Head(ps), t)
         + AffectedMany(v, kind, Tail(ps), ApplyOne(kind, Head(ps), t))

\* cursor.rowcount after executemany(sqlstring, ps): the sum over the rows;
\* on an empty list the networked driver returns at once and leaves rowcount
\* as it was, the file-based driver sets it to 0
ManyRowcount(v, kind, ps, t, rc) ==
    IF ps = <<>> THEN (IF v \in Networked THEN rc ELSE 0)
    ELSE AffectedMany(v, kind, ps, t)

\* how many rows of the submission are applied when the driver raises: an
\* empty list reaches the file-based engine (which compiles the statement) but
\* not the networked server; the networked driver sends a list of inserts as
\* one statement; otherwise the rows before the failing one are applied
FailurePoints(v, kind, mode, rows) ==
    IF rows = <<>> THEN (IF v \in FileBased THEN {0} ELSE {})
    ELSE IF v \in Networked /\ mode = "executemany" /\ kind = "insert" THEN {0}
    ELSE 0..(Len(rows) - 1)

SubSeqTo(s, n) == IF n = 0 THEN <<>> ELSE SubSeq(s, 1, n)

\* rows that differ between two observations of the table
Changed(before, after) ==
    IF Len(before) # Len(after)
    THEN (IF Len(before) < Len(after) THEN Len(after) - Len(before)
          ELSE Len(before) - Len(after))
    ELSE Cardinality({i \in 1..Len(before) : before[i] # after[i]})

(***************************************************************************)
(* init_conn and init_database of the file-based wrappers                  *)
(***************************************************************************)
\* the script run whenever one was supplied
NeedsBootstrapAlways(n, script) == script # 0

\* len(list_tables) < 2 and self.sql_script
NeedsBootstrap(n, script) == n < TableThreshold /\ script # 0

\* every init_database raising on a script failure
ScriptErrorRaisesAlways(v) == TRUE

\* init_database on a script failure: raise err / logger.error and go on
ScriptErrorRaises(v) == v = ClassesSqliteV

\* the except clauses that log before they raise or return
LogsError(v) == v \in {MysqlDataManagerV, MysqlConnectorManagerV, SqliteDataManagerV}

TablesAfter(n, script) == IF n < script THEN script ELSE n

SqliteInitConn ==
    /\ pc = "init_conn"
    /\ variant \in FileBased
    /\ connectCalls' = connectCalls + 1
    /\ IF connectCalls < failPlan
       THEN \* sqlite3.connect raises
            /\ events' = Append(events, "connect_fail")
            /\ log' = IF variant = SqliteDataManagerV
                      THEN Append(log, LogRec("ERROR", "init connection", 0, 0))
                      ELSE log
            /\ InitConnReturn(Raise("DriverError"))
            /\ UNCHANGED <<openConns, pending, tables, bootstraps>>
       ELSE /\ openConns' = openConns + 1
            /\ \E listed \in BOOLEAN :
               IF ~listed
               THEN \* the table-count query of the else clause raises (the
                    \* file is locked or is not a database): nothing catches
                    \* it, nothing is logged, the connection stays open
                    /\ events' = Append(events, "connect_ok")
                    /\ InitConnReturn(Raise("DriverError"))
                    /\ UNCHANGED <<pending, tables, bootstraps, log>>
               ELSE /\ pending' = store
                    /\ IF NeedsBootstrap(tables, sql_script)
                       THEN /\ bootstraps' = bootstraps + 1
                            /\ \E ok \in BOOLEAN :
                               IF ok
                               THEN /\ tables' = TablesAfter(tables, sql_script)
                                    /\ events' = events \o <<"connect_ok", "executescript",
                                                             "script_commit">>
                                    /\ log' = log
                                    /\ InitConnReturn(ReturnConn)
                               ELSE \* the statements before the failing one took effect
                                    /\ tables' \in tables..TablesAfter(tables, sql_script)
                                    /\ events' = events \o <<"connect_ok", "executescript",
                                                             "error">>
                                    /\ IF ScriptErrorRaises(variant)
                                       THEN /\ log' = log
                                            /\ InitConnReturn(Raise("DriverError"))
                                       ELSE /\ log' = Append(log, LogRec("ERROR",
                                                                 "init database", 0, 0))
                                            /\ InitConnReturn(ReturnConn)
                       ELSE /\ events' = Append(events, "connect_ok")
                            /\ InitConnReturn(ReturnConn)
                            /\ UNCHANGED <<tables, bootstraps, log>>
    /\ UNCHANGED <<tpc, top, tstmt, tmydb, conns, variant, sql_script, store, calls, op,
                   attempts, delay, failPlan, attempt, waits, sqlstring, val, rowcount,
                   storeAtCall>>

\* init_conn() of a file-based wrapper called directly: the handle goes to
\* the caller; the connect fails or not
CallSqliteInitConn ==
    /\ pc = "idle"
    /\ variant \in FileBased
    /\ \E k \in {0, 1} :
          StartCall("init_conn", DefaultAttempts, DefaultDelay, k, NoStatement, NoPayload)

\* init_database(conn) called directly with the handle init_conn returned:
\* executescript is called whatever the number of tables; without a script
\* (sql_script is None) it raises a TypeError, which no except clause names
InitDatabase ==
    /\ pc = "done"
    /\ op = "init_conn"
    /\ mydb = "conn"
    /\ variant \in FileBased
    /\ calls < MaxCalls
    /\ calls' = calls + 1
    /\ op' = "init_database"
    /\ bootstraps' = bootstraps + 1
    /\ IF sql_script = 0
       THEN /\ events' = <<"executescript", "error">>
            /\ log' = <<>>
            /\ result' = Raise("TypeError")
            /\ tables' = tables
       ELSE \E ok \in BOOLEAN :
            IF ok
            THEN /\ tables' = TablesAfter(tables, sql_script)
                 /\ events' = <<"executescript", "script_commit">>
                 /\ log' = <<>>
                 /\ result' = ReturnNone
            ELSE /\ tables' \in tables..TablesAfter(tables, sql_script)
                 /\ events' = <<"executescript", "error">>
                 /\ IF ScriptErrorRaises(variant)
                    THEN /\ log' = <<>>
                         /\ result' = Raise("DriverError")
                    ELSE /\ log' = <<LogRec("ERROR", "init database", 0, 0)>>
                         /\ result' = ReturnNone
    /\ UNCHANGED <<tpc, top, tstmt, tmydb, conns, variant, sql_script, store, openConns, pc,
                   attempts, delay, failPlan, attempt, connectCalls, waits, mydb,
                   sqlstring, val, pending, rowcount, storeAtCall>>

(***************************************************************************)
(* select, select_pragma_info, query, call_proc                            *)
(***************************************************************************)
\* no variant closing in a finally block
ClosesInFinallyNever(v) == FALSE

\* the statement steps run inside try ... finally: mydb.close()
ClosesInFinally(v) == v = MysqlDataManagerV

\* the except clause reporting zero rows
ExecErrorZero(v) == ReturnInt(0)

\* the except clause of the statement: raise err / return None
ExecErrorOutcome(v) ==
    IF v = MysqlConnectorManagerV THEN ReturnNone ELSE Raise("DriverError")

\* the except clause starting the call over
AfterStatementErrorRetry == "init_conn"

\* the except clause falling through to the commit
AfterStatementErrorCommit == "commit"

\* where the call is once the except clause has answered: it is over
AfterStatementError == "done"

\* a driver error inside the try block: logged by the variants that log,
\* answered by the except clause, the connection closed where finally does
CaughtError(what) ==
    /\ events' = events \o (IF ClosesInFinally(variant)
                            THEN <<what, "error", "close">> ELSE <<what, "error">>)
    /\ log' = IF LogsError(variant)
              THEN Append(log, LogRec("ERROR", "statement", 0, 0)) ELSE log
    /\ openConns' = IF ClosesInFinally(variant) THEN openConns - 1 ELSE openConns
    /\ result' = ExecErrorOutcome(variant)
    /\ pc' = AfterStatementError

\* a driver error after the try block: nothing catches it
UncaughtError(what) ==
    /\ events' = events \o <<what, "error">>
    /\ result' = Raise("DriverError")
    /\ pc' = "done"
    /\ UNCHANGED <<log, openConns>>

\* fetchall and commit are inside the try block only in MysqlDataManager
LateError(what) ==
    IF ClosesInFinally(variant) THEN CaughtError(what) ELSE UncaughtError(what)

\* cursor = mydb.cursor()
Cursor ==
    /\ pc = "cursor"
    /\ IF mydb = "None"
       THEN /\ result' = Raise("AttributeError")
            /\ pc' = "done"
            /\ UNCHANGED events
       ELSE /\ events' = Append(events, "cursor")
            /\ pc' = "execute"
            /\ UNCHANGED result
    /\ UNCHANGED <<tpc, top, tstmt, tmydb, conns, variant, sql_script, tables, bootstraps, store, calls, openConns, op,
                   attempts, delay, failPlan, attempt, connectCalls, waits, mydb,
                   sqlstring, val, pending, rowcount, storeAtCall, log>>

\* cursor.execute(sqlstring) of select
ExecuteSelect ==
    /\ pc = "execute"
    /\ op \in {"select", "select_pragma_info"}
    /\ \E ok \in BOOLEAN :
       IF ok
       THEN /\ events' = Append(events, "execute")
            /\ pc' = "fetch"
            /\ UNCHANGED <<log, openConns, result>>
       ELSE CaughtError("execute")
    /\ UNCHANGED <<tpc, top, tstmt, tmydb, conns, variant, sql_script, tables, bootstraps, store, calls, op, attempts,
                   delay, failPlan, attempt, connectCalls, waits, mydb, sqlstring, val,
                   pending, rowcount, storeAtCall>>

\* the columns of the table the statements work on
Columns == <<"v", "w">>

\* the names select_pragma_info is called with: the table, and no table
TableNames == {"t", "nosuch"}

\* select * from pragma_table_info('<tablename>') on a file of n tables: one
\* row per column of the named table (its position and its name stand for
\* the row), whatever rows the table holds; no row for a table that does
\* not exist: a name no table has, or the table's name while the file has
\* no table yet (the table is the first one the script creates)
PragmaRows(tablename, n) ==
    IF tablename = "t" /\ n >= 1
    THEN [i \in 1..Len(Columns) |-> <<i - 1, Columns[i]>>]
    ELSE <<>>

\* what fetchall hands back: the rows of the table as the connection sees
\* them for select, the column rows for select_pragma_info
Fetched(o, s, t, n) == IF o = "select_pragma_info" THEN PragmaRows(s.table, n) ELSE t

\* result = cursor.fetchall(); mydb.close(); return result
Fetch ==
    /\ pc = "fetch"
    /\ op \in {"select", "select_pragma_info"}
    /\ \E ok \in BOOLEAN :
       IF ok
       THEN /\ events' = events \o <<"fetchall", "close">>
            /\ openConns' = openConns - 1
            /\ result' = ReturnList(Fetched(op, sqlstring, pending, tables))
            /\ pc' = "done"
            /\ UNCHANGED log
       ELSE LateError("fetchall")
    /\ UNCHANGED <<tpc, top, tstmt, tmydb, conns, variant, sql_script, tables, bootstraps, store, calls, op, attempts,
                   delay, failPlan, attempt, connectCalls, waits, mydb, sqlstring, val,
                   pending, rowcount, storeAtCall>>

\* an else branch: whatever is neither list nor tuple goes to the plain execute
DispatchElse(p) ==
    CASE p.shape = "list" -> "executemany"
      [] p.shape = "tuple" -> "execute_params"
      [] OTHER -> "execute"

\* every payload going through the plain execute
DispatchPlain(p) == "execute"

\* the branch of query's if / elif / elif that val selects
Dispatch(p) ==
    CASE p.shape = "list" -> "executemany"
      [] p.shape = "tuple" -> "execute_params"
      [] p.shape = "None" -> "execute"
      [] OTHER -> "skip"

\* the parameter rows the chosen branch submits
Submitted(s, p) ==
    CASE Dispatch(p) = "executemany" -> p.rows
      [] Dispatch(p) = "execute_params" -> p.rows
      [] Dispatch(p) = "execute" -> <<s.lit>>
      [] OTHER -> <<>>

\* query closing without a commit
AfterExecuteNoCommit == "close"

\* where query goes after its if / elif / elif
AfterExecute == "commit"

ExecuteQuery ==
    /\ pc = "execute"
    /\ op = "query"
    /\ LET mode == Dispatch(val)
           rows == Submitted(sqlstring, val)
       IN IF mode = "skip"
          THEN /\ pc' = AfterExecute
               /\ UNCHANGED <<events, pending, rowcount, log, openConns, result>>
          ELSE \E ok \in BOOLEAN :
               IF ok
               THEN /\ events' = Append(events, mode)
                    /\ pending' = ApplyMany(sqlstring.kind, rows, pending)
                    /\ rowcount' = IF mode = "executemany"
                                   THEN ManyRowcount(variant, sqlstring.kind, rows,
                                                     pending, rowcount)
                                   ELSE AffectedMany(variant, sqlstring.kind, rows,
                                                     pending)
                    /\ pc' = AfterExecute
                    /\ UNCHANGED <<log, openConns, result>>
               ELSE \E j \in FailurePoints(variant, sqlstring.kind, mode, rows) :
                    /\ pending' = ApplyMany(sqlstring.kind, SubSeqTo(rows, j), pending)
                    /\ UNCHANGED rowcount
                    /\ CaughtError(mode)
    /\ UNCHANGED <<tpc, top, tstmt, tmydb, conns, variant, sql_script, tables, bootstraps, store, calls, op, attempts,
                   delay, failPlan, attempt, connectCalls, waits, mydb, sqlstring, val,
                   storeAtCall>>

\* mycursor.callproc(procname, args); results.extend(...) over stored_results()
ExecuteCallProc ==
    /\ pc = "execute"
    /\ op = "call_proc"
    /\ \E ok \in BOOLEAN :
       IF ok
       THEN /\ events' = events \o <<"callproc", "stored_results">>
            /\ pc' = AfterExecute
            /\ UNCHANGED <<log, openConns, result>>
       ELSE CaughtError("callproc")
    /\ UNCHANGED <<tpc, top, tstmt, tmydb, conns, variant, sql_script, tables, bootstraps, store, calls, op, attempts,
                   delay, failPlan, attempt, connectCalls, waits, mydb, sqlstring, val,
                   pending, rowcount, storeAtCall>>

\* mydb.commit()
Commit ==
    /\ pc = "commit"
    /\ \E ok \in BOOLEAN :
       IF ok
       THEN /\ events' = Append(events, "commit")
            /\ store' = pending
            /\ pc' = "close"
            /\ UNCHANGED <<log, openConns, result>>
       ELSE /\ LateError("commit")
            /\ UNCHANGED store
    /\ UNCHANGED <<tpc, top, tstmt, tmydb, conns, variant, sql_script, tables, bootstraps, calls, op, attempts, delay,
                   failPlan, attempt, connectCalls, waits, mydb, sqlstring, val,
                   pending, rowcount, storeAtCall>>

RECURSIVE Flatten(_)
Flatten(ss) == IF ss = <<>> THEN <<>> ELSE Head(ss) \o Flatten(Tail(ss))

\* the result sets the procedure leaves in stored_results(): set i holds the
\* rows of the table with value i, as the connection sees them
ResultSets(n, t) == [i \in 1..n |-> SelectSeq(t, LAMBDA x : x = i)]

\* call_proc handing back its first result set only
ReturnFirstSet(o, rc, sets) ==
    IF o = "query" THEN ReturnInt(rc)
    ELSE ReturnList(IF sets = <<>> THEN <<>> ELSE Head(sets))

\* the value query and call_proc return
ReturnValue(o, rc, sets) ==
    IF o = "query" THEN ReturnInt(rc) ELSE ReturnList(Flatten(sets))

\* mydb.close(); return mycursor.rowcount  /  return results
CloseReturn ==
    /\ pc = "close"
    /\ events' = Append(events, "close")
    /\ openConns' = openConns - 1
    /\ result' = ReturnValue(op, rowcount, ResultSets(val.sets, pending))
    /\ pc' = "done"
    /\ UNCHANGED <<tpc, top, tstmt, tmydb, conns, variant, sql_script, tables, bootstraps, store, calls, op, attempts,
                   delay, failPlan, attempt, connectCalls, waits, mydb, sqlstring, val,
                   pending, rowcount, storeAtCall, log>>

(***************************************************************************)
(* The public calls with their inputs                                      *)
(***************************************************************************)
\* connect behaviour during a statement call: reachable at once, after one
\* failure, or not within the default attempts
StatementFailPlans == IF variant \in Networked THEN {0, 1, DefaultAttempts} ELSE {0, 1}

Params(kind) ==
    IF kind = "update" THEN Vals \X Vals ELSE {<<a, a>> : a \in Vals}

\* list payloads are enumerated for inserts and deletes
RowLists(kind) ==
    IF kind = "update" THEN {<<>>}
    ELSE UNION {[1..m -> Params(kind)] : m \in 0..MaxBatch}

Payloads(kind) ==
    {[shape |-> "None", rows |-> <<>>, sets |-> 0],
     [shape |-> "other", rows |-> <<>>, sets |-> 0]}
    \cup {[shape |-> "tuple", rows |-> <<p>>, sets |-> 0] : p \in Params(kind)}
    \cup {[shape |-> "list", rows |-> r, sets |-> 0] : r \in RowLists(kind)}

Statements(kind) == {[kind |-> kind, lit |-> p, table |-> "t"] : p \in Params(kind)}

\* the table holds at most MaxRows rows
Fits(s, p) ==
    s.kind = "insert" => Len(store) + Len(Submitted(s, p)) <= MaxRows

CallSelect ==
    /\ pc = "idle"
    /\ \E k \in StatementFailPlans :
          StartCall("select", DefaultAttempts, DefaultDelay, k,
                    [kind |-> "select", lit |-> <<1, 1>>, table |-> "t"], NoPayload)

CallSelectPragmaInfo ==
    /\ pc = "idle"
    /\ variant \in FileBased
    /\ \E k \in StatementFailPlans, tablename \in TableNames :
          StartCall("select_pragma_info", DefaultAttempts, DefaultDelay, k,
                    [kind |-> "pragma", lit |-> <<1, 1>>, table |-> tablename],
                    NoPayload)

CallQuery ==
    /\ pc = "idle"
    /\ \E k \in StatementFailPlans, kind \in {"insert", "update", "delete"} :
          \E s \in Statements(kind), p \in Payloads(kind) :
             /\ Fits(s, p)
             /\ (p.shape # "None" => s.lit = <<1, 1>>)
             /\ StartCall("query", DefaultAttempts, DefaultDelay, k, s, p)

CallProc ==
    /\ pc = "idle"
    /\ variant = MysqlDataManagerV
    /\ \E k \in StatementFailPlans, n \in 0..MaxSets :
          StartCall("call_proc", DefaultAttempts, DefaultDelay, k,
                    [kind |-> "proc", lit |-> <<1, 1>>, table |-> "t"],
                    [shape |-> "tuple", rows |-> <<>>, sets |-> n])

GateNext ==
    \/ CallInitConn
    \/ CallInitConnLarge
    \/ CallerClose
    \/ InitConnAttempt
    \/ InitConnExhausted
    \/ Finish

\* the connection-retry gate alone, called directly
GateSpec == Init /\ [][GateNext]_vars

Next ==
    \/ CallSelect
    \/ CallSelectPragmaInfo
    \/ CallQuery
    \/ CallProc
    \/ CallSqliteInitConn
    \/ InitDatabase
    \/ CallerClose
    \/ InitConnAttempt
    \/ SqliteInitConn
    \/ Cursor
    \/ ExecuteSelect
    \/ Fetch
    \/ ExecuteQuery
    \/ ExecuteCallProc
    \/ Commit
    \/ CloseReturn
    \/ Finish

\* the statement calls of every wrapper, each running init_conn with its
\* defaults (attempts = 3: the loop of init_conn is never left by its
\* condition), and init_conn and init_database of the file-based wrappers
\* called directly
Spec == Init /\ [][Next]_vars

(***************************************************************************)
(* Concurrent callers of one wrapper instance. Each thread runs one call;  *)
(* the steps of different calls interleave. A connection handle is a       *)
(* number; conns[h] records which call opened it, whether it is open and   *)
(* which calls have used, committed or closed it.                          *)
(***************************************************************************)
\* the handle kept in an attribute of the instance
HolderShared(t) == 1

\* where call t keeps its handle: mydb is a local variable of the call
Holder(t) == t

\* the public methods a variant offers
ThreadOps(v) ==
    IF v = MysqlDataManagerV THEN {"init_conn", "select", "query", "call_proc"}
    ELSE IF v \in Networked THEN {"init_conn", "select", "query"}
    ELSE {"init_conn", "init_database", "select", "select_pragma_info", "query"}

\* the handle call t works on
HandleOf(t) == tmydb[Holder(t)]

\* call t makes a driver call on the handle it holds
UseHandle(t, closes) ==
    conns' = [conns EXCEPT ![HandleOf(t)] =
                [@ EXCEPT !.users = @ \cup {t},
                          !.open = IF closes THEN FALSE ELSE @]]

\* where thread t is once init_conn has returned its handle: with the handle
\* in its own hands after a direct init_conn, at mydb.cursor() otherwise
AfterConn(t) == IF top[t] = "init_conn" THEN "caller" ELSE "cursor"

\* a driver call of call t raised after it got its cursor: the variant that
\* closes in finally goes on to mydb.close(), a later driver call; in the
\* others the call is over and the handle stays open
ThreadError(t) ==
    /\ UseHandle(t, FALSE)
    /\ tpc' = [tpc EXCEPT ![t] = IF ClosesInFinally(variant) THEN "close" ELSE "done"]

\* a thread calls a public method; init_database needs a handle first
ThreadCall(t) ==
    /\ tpc[t] = "idle"
    /\ \E o \in ThreadOps(variant) \ {"init_database"} : top' = [top EXCEPT ![t] = o]
    /\ tpc' = [tpc EXCEPT ![t] = "init_conn"]
    /\ UNCHANGED <<tstmt, tmydb, conns, callVars>>

\* the connect of init_conn: a new handle, or none when the connect failed
\* (the call then ends: init_conn raised or returned None, or mydb.cursor()
\* raised on None)
ThreadInitConn(t) ==
    /\ tpc[t] = "init_conn"
    /\ \E ok \in BOOLEAN :
       IF ok
       THEN /\ conns' = Append(conns, [opener |-> t, open |-> TRUE, users |-> {}])
            /\ tmydb' = [tmydb EXCEPT ![Holder(t)] = Len(conns) + 1]
            /\ tpc' = [tpc EXCEPT ![t] = IF variant \in FileBased THEN "list_tables"
                                         ELSE AfterConn(t)]
       ELSE /\ tpc' = [tpc EXCEPT ![t] = "done"]
            /\ UNCHANGED <<tmydb, conns>>
    /\ UNCHANGED <<top, tstmt, callVars>>

\* list_tables = conn.execute("select name from sqlite_master ...").fetchall()
\* of the file-based init_conn; when it raises the call is over and the
\* handle stays open
ThreadListTables(t) ==
    /\ tpc[t] = "list_tables"
    /\ UseHandle(t, FALSE)
    /\ \E ok \in BOOLEAN :
          tpc' = [tpc EXCEPT ![t] = IF ~ok THEN "done"
                                    ELSE IF NeedsBootstrap(tables, sql_script)
                                         THEN "init_database"
                                         ELSE AfterConn(t)]
    /\ UNCHANGED <<top, tstmt, tmydb, callVars>>

\* init_database(conn) called by the thread that holds the handle of a
\* direct init_conn (once per handle)
ThreadCallInitDatabase(t) ==
    /\ tpc[t] = "caller"
    /\ top[t] = "init_conn"
    /\ variant \in FileBased
    /\ top' = [top EXCEPT ![t] = "init_database"]
    /\ tpc' = [tpc EXCEPT ![t] = "init_database"]
    /\ tstmt' = [tstmt EXCEPT ![t] = 0]
    /\ UNCHANGED <<tmydb, conns, callVars>>

\* where thread t is once init_database is over
AfterScript(t) == IF top[t] = "init_database" THEN "caller" ELSE AfterConn(t)

\* where thread t is once the script failed: init_database called directly
\* returns or raises to the thread; inside init_conn the error ends the call
\* in the class that re-raises it and is swallowed in the other
AfterScriptError(t) ==
    IF top[t] = "init_database" THEN "caller"
    ELSE IF ScriptErrorRaises(variant) THEN "done"
    ELSE AfterConn(t)

\* the k-th statement of the script: CREATE TABLE IF NOT EXISTS of table k
StatementEffect(n, k) == IF n < k THEN k ELSE n

\* cursor.executescript(self.sql_script) of init_database, statement by
\* statement: each statement takes effect on its own and other threads run
\* between two of them.  The first step is the call itself with the first
\* statement; a statement fails, or (sql_script is None) the call raises
ThreadInitDatabase(t) ==
    /\ tpc[t] = "init_database"
    /\ tstmt[t] < sql_script \/ sql_script = 0
    /\ UseHandle(t, FALSE)
    /\ bootstraps' = IF tstmt[t] = 0 THEN bootstraps + 1 ELSE bootstraps
    /\ \E ok \in BOOLEAN :
       IF ok /\ sql_script # 0
       THEN /\ tables' = StatementEffect(tables, tstmt[t] + 1)
            /\ tstmt' = [tstmt EXCEPT ![t] = @ + 1]
            /\ tpc' = tpc
       ELSE /\ tables' = tables
            /\ tstmt' = tstmt
            /\ tpc' = [tpc EXCEPT ![t] = AfterScriptError(t)]
    /\ UNCHANGED <<top, tmydb, variant, sql_script, store, calls, openConns, pc, op,
                   attempts, delay, failPlan, attempt, connectCalls, waits, mydb,
                   sqlstring, val, pending, rowcount, storeAtCall, events, log, result>>

\* the script ran to its end, or a statement after its last CREATE TABLE
\* fails: cursor.close(); conn.commit() of the else clause, or the error
ThreadScriptEnd(t) ==
    /\ tpc[t] = "init_database"
    /\ tstmt[t] = sql_script
    /\ sql_script # 0
    /\ UseHandle(t, FALSE)
    /\ \E ok \in BOOLEAN :
          tpc' = [tpc EXCEPT ![t] = IF ok THEN AfterScript(t) ELSE AfterScriptError(t)]
    /\ UNCHANGED <<top, tstmt, tmydb, callVars>>

\* conn.close() by the thread that asked init_conn for the handle; a thread
\* that never takes this step leaves the handle open
ThreadCallerClose(t) ==
    /\ tpc[t] = "caller"
    /\ UseHandle(t, TRUE)
    /\ tpc' = [tpc EXCEPT ![t] = "done"]
    /\ UNCHANGED <<top, tstmt, tmydb, callVars>>

\* mycursor = mydb.cursor()
ThreadCursor(t) ==
    /\ tpc[t] = "cursor"
    /\ UseHandle(t, FALSE)
    /\ tpc' = [tpc EXCEPT ![t] = "execute"]
    /\ UNCHANGED <<top, tstmt, tmydb, callVars>>

\* execute / executemany / callproc on the cursor
ThreadExecute(t) ==
    /\ tpc[t] = "execute"
    /\ \E ok \in BOOLEAN :
       IF ok
       THEN /\ UseHandle(t, FALSE)
            /\ tpc' = [tpc EXCEPT ![t] = "finish"]
       ELSE ThreadError(t)
    /\ UNCHANGED <<top, tstmt, tmydb, callVars>>

\* cursor.fetchall() of select and select_pragma_info, mydb.commit() of
\* query and call_proc
ThreadFetchOrCommit(t) ==
    /\ tpc[t] = "finish"
    /\ \E ok \in BOOLEAN :
       IF ok
       THEN /\ UseHandle(t, FALSE)
            /\ tpc' = [tpc EXCEPT ![t] = "close"]
       ELSE ThreadError(t)
    /\ UNCHANGED <<top, tstmt, tmydb, callVars>>

\* mydb.close() and return (or raise, after a failed driver call)
ThreadClose(t) ==
    /\ tpc[t] = "close"
    /\ UseHandle(t, TRUE)
    /\ tpc' = [tpc EXCEPT ![t] = "done"]
    /\ UNCHANGED <<top, tstmt, tmydb, callVars>>

ConcNext ==
    \E t \in Threads :
       \/ ThreadCall(t)
       \/ ThreadInitConn(t)
       \/ ThreadListTables(t)
       \/ ThreadCallInitDatabase(t)
       \/ ThreadInitDatabase(t)
       \/ ThreadScriptEnd(t)
       \/ ThreadCallerClose(t)
       \/ ThreadCursor(t)
       \/ ThreadExecute(t)
       \/ ThreadFetchOrCommit(t)
       \/ ThreadClose(t)

\* MaxThreads callers, one call each, interleaved step by step
ConcSpec == Init /\ [][ConcNext]_vars

(***************************************************************************)
(* Properties of the connection-retry gate (GateSpec)                      *)
(***************************************************************************)
Connects == {"connect_ok", "connect_fail"}

GateDone == pc = "done" /\ op = "init_conn"

AllFailed == failPlan >= attempts

WaitsUpTo(d, n) == [i \in 1..n |-> Pow(d, i)]

\* C1: for every attempt bound N >= 1 and a connect that fails K times and then
\* succeeds, init_conn returns a handle iff K < N, calls connect min(K+1, N)
\* times, and does not connect or wait after the successful connect.
C1_GateAttempts ==
    (GateDone /\ attempts >= 1) =>
       /\ (result = ReturnConn) <=> (failPlan < attempts)
       /\ connectCalls = Min(failPlan + 1, attempts)
       /\ Cardinality({i \in 1..Len(events) : events[i] \in Connects}) = connectCalls
       /\ \A i \in 1..Len(events) :
             events[i] = "connect_ok" => i = Len(events)

C1_Witness ==
    /\ GateDone
    /\ attempts >= 2
    /\ failPlan >= 1
    /\ failPlan < attempts
    /\ result = ReturnConn
    /\ connectCalls = failPlan + 1

\* C2: the wait before attempt i+1 is delay^i, and the time one init_conn call
\* waits in total is the sum of the waits that precede the attempts it made.
C2_BackoffSum ==
    (op = "init_conn" /\ attempts >= 1) =>
       /\ \A i \in 1..Len(waits) : waits[i] = Pow(delay, i)
       /\ GateDone => SumSeq(waits) = SumSeq(WaitsUpTo(delay, connectCalls - 1))

\* C3 as stated: an unreachable host, 3 attempts, base delay 1: three
\* attempts, a wait of 1 s and then one of 2 s, failure, nothing after it.
C3_Original ==
    (GateDone /\ attempts = 3 /\ delay = 1 /\ AllFailed) =>
       /\ connectCalls = 3
       /\ waits = <<1, 2>>
       /\ events = <<"connect_fail", "sleep", "connect_fail", "sleep", "connect_fail">>
       /\ result \in {ReturnNone, Raise("DriverError")}

\* C3 amended: the same scenario, with waits of 1 s and 1 s (1^1 and 1^2).
C3_UnreachableHost ==
    (GateDone /\ attempts = 3 /\ delay = 1 /\ AllFailed) =>
       /\ connectCalls = 3
       /\ waits = <<1, 1>>
       /\ events = <<"connect_fail", "sleep", "connect_fail", "sleep", "connect_fail">>
       /\ result \in {ReturnNone, Raise("DriverError")}

C3_Witness ==
    /\ GateDone
    /\ attempts = 3
    /\ delay = 1
    /\ AllFailed
    /\ connectCalls = 3
    /\ Len(waits) = 2

\* C4: for every attempt bound N >= 1, when all N attempts fail,
\* MysqlDataManager.init_conn raises the driver error and returns nothing,
\* and the MysqlConnectorManager variants return None.
C4_ExhaustionPolicy ==
    (GateDone /\ attempts >= 1 /\ AllFailed) =>
       IF variant = MysqlDataManagerV
       THEN result = Raise("DriverError")
       ELSE result = ReturnNone

(***************************************************************************)
(* Properties of the statement calls (Spec)                                *)
(***************************************************************************)
StatementOps == {"select", "select_pragma_info", "query", "call_proc"}

Submissions == {"execute", "execute_params", "executemany", "callproc"}

Occurrences(e) == Cardinality({i \in 1..Len(events) : events[i] = e})

SubmissionCount == Cardinality({i \in 1..Len(events) : events[i] \in Submissions})

\* the driver rejected the statement the call submitted
ExecFailed ==
    \E i \in 1..(Len(events) - 1) : events[i] \in Submissions /\ events[i + 1] = "error"

StatementDone == pc = "done" /\ op \in StatementOps

QuerySucceeded == pc = "done" /\ op = "query" /\ result.type = "int"

\* C5: whenever select, query, call_proc or select_pragma_info has returned
\* or raised, the connection it opened is closed: no connection stays open.
C5_NoOpenConnection == StatementDone => openConns = 0

\* C6: within one call the statement is submitted to the driver at most once,
\* and no connect attempt and no second submission follows a submission,
\* whether it failed or not.
C6_OnlyConnectRetried ==
    (op \in StatementOps) =>
       /\ SubmissionCount <= 1
       /\ \A i \in 1..Len(events) : \A j \in (i + 1)..Len(events) :
             events[i] \in Submissions => events[j] \notin (Connects \cup Submissions)

C6_Witness ==
    /\ pc = "done"
    /\ op = "query"
    /\ ExecFailed
    /\ connectCalls = 2
    /\ SubmissionCount = 1

\* C7: a select or query whose statement execution failed raises or returns
\* None; it returns neither a row list nor an affected-row count.
C7_FailureSurfaced ==
    (pc = "done" /\ op \in {"select", "select_pragma_info", "query"} /\ ExecFailed) =>
       \/ result.kind = "raise"
       \/ result = ReturnNone

C7_Witness ==
    /\ pc = "done"
    /\ op = "query"
    /\ ExecFailed
    /\ result = ReturnNone

\* C8: a query call that succeeds connects (init_conn, with the schema
\* bootstrap of the file-based wrappers inside it), then executes its
\* statement, then commits, then closes and returns the affected-row count:
\* query commits exactly once, after the execution and right before the
\* close; and a query whose statement execution failed does not commit.
C8_CommitBeforeClose ==
    /\ QuerySucceeded =>
          LET n == Len(events)
              x == IF Dispatch(val) = "skip" THEN n - 2 ELSE n - 3
          IN
          /\ n >= 4
          /\ events[n] = "close"
          /\ events[n - 1] = "commit"
          /\ Occurrences("commit") = 1
          /\ Occurrences("close") = 1
          /\ Occurrences("connect_ok") = 1
          /\ events[x] = "cursor"
          /\ \E i \in 1..(x - 1) : events[i] = "connect_ok"
          /\ Dispatch(val) # "skip" =>
                /\ events[n - 2] = Dispatch(val)
                /\ SubmissionCount = 1
          /\ result.int = rowcount
    /\ (op = "query" /\ ExecFailed) => Occurrences("commit") = 0

C8_Witness ==
    /\ QuerySucceeded
    /\ events = <<"connect_fail", "sleep", "connect_ok", "cursor", "executemany",
                  "commit", "close">>
    /\ store # storeAtCall

\* C9: for every successful write (insert, update or delete, with a tuple, a
\* list or no parameters), the integer query returns is the number of rows
\* the call changed in the committed table.
C9_AffectedEqualsChanged ==
    (QuerySucceeded /\ val.shape \in {"None", "tuple", "list"}) =>
       result.int = Changed(storeAtCall, store)

\* C10: for every M >= 0, a successful query with an insert statement and a
\* list of M parameter tuples returns M and adds exactly M rows.
C10_BatchInsert ==
    (QuerySucceeded /\ sqlstring.kind = "insert" /\ val.shape = "list") =>
       /\ result.int = Len(val.rows)
       /\ Len(store) = Len(storeAtCall) + Len(val.rows)

\* the values a submission carries as its first parameter, in order
FirstParams(rows) == [i \in 1..Len(rows) |-> rows[i][1]]

InTable(x, t) == \E i \in 1..Len(t) : t[i] = x

SelectReturned == pc = "done" /\ op = "select" /\ result.type = "list"

\* C11: write-then-read round trip. Once query has returned, the rows it
\* wrote are in the committed table (an insert appended its rows in the order
\* given, a delete or a changing update left no row with the value it
\* addressed), and a select, which runs on a connection of its own opened
\* after that, returns exactly the committed rows in their order.
C11_WriteThenRead ==
    /\ (QuerySucceeded /\ sqlstring.kind = "insert") =>
          store = storeAtCall \o FirstParams(Submitted(sqlstring, val))
    /\ (QuerySucceeded /\ sqlstring.kind = "delete") =>
          \A i \in 1..Len(Submitted(sqlstring, val)) :
             ~InTable(Submitted(sqlstring, val)[i][1], store)
    /\ (QuerySucceeded /\ sqlstring.kind = "update") =>
          \A i \in 1..Len(Submitted(sqlstring, val)) :
             LET p == Submitted(sqlstring, val)[i]
             IN /\ p[1] # p[2] => ~InTable(p[1], store)
                /\ Count(store, p[2]) = Count(storeAtCall, p[1])
                                        + (IF p[1] # p[2] THEN Count(storeAtCall, p[2])
                                           ELSE 0)
    /\ SelectReturned =>
          /\ result.rows = store
          /\ Occurrences("connect_ok") = 1
          /\ events[Len(events)] = "close"

\* a select after a query that inserted 2 and then 1 returns them in that order
C11_Witness ==
    /\ SelectReturned
    /\ calls = 2
    /\ result.rows = <<2, 1>>

\* C12: in every variant, a select whose statement executed and was fetched
\* without a driver error on a table with no rows returns an empty list; and
\* no select that got its statement executed and fetched returns None.
C12_EmptyListNotNone ==
    (pc = "done" /\ op \in {"select", "select_pragma_info"}
       /\ Occurrences("fetchall") = 1 /\ Occurrences("error") = 0) =>
       /\ result.kind = "return"
       /\ result.type = "list"
       /\ (op = "select" /\ store = <<>>) => result.rows = <<>>
       /\ (op = "select_pragma_info" /\ (sqlstring.table = "nosuch" \/ tables = 0)) =>
             result.rows = <<>>

C12_Witness ==
    /\ pc = "done"
    /\ op = "select"
    /\ variant = MysqlConnectorManagerV
    /\ store = <<>>
    /\ Occurrences("fetchall") = 1
    /\ result.type = "list"
    /\ result.rows = <<>>

\* the driver call the claim names for a payload shape
NamedCall(shape) ==
    CASE shape = "None" -> "execute"
      [] shape = "tuple" -> "execute_params"
      [] shape = "list" -> "executemany"

\* query has got its cursor and is past its if / elif / elif
QueryDispatched ==
    /\ op = "query"
    /\ pc \in {"commit", "close", "done"}
    /\ Occurrences("cursor") = 1

\* C13: a query call that reached its dispatch with no payload, a tuple or a
\* list made exactly one driver execution call, whether that call failed or
\* not: a plain execute for None, a parameterized execute for a tuple, an
\* executemany for a list; and the call carried the payload: an accepted
\* insert added the tuple's row, or one row per list element in list order.
C13_Dispatch ==
    (QueryDispatched /\ val.shape \in {"None", "tuple", "list"}) =>
       /\ SubmissionCount = 1
       /\ Occurrences(NamedCall(val.shape)) = 1
       /\ (sqlstring.kind = "insert" /\ Occurrences("error") = 0) =>
             pending = storeAtCall \o (IF val.shape = "None"
                                       THEN <<sqlstring.lit[1]>>
                                       ELSE FirstParams(val.rows))

C13_Witness ==
    /\ QueryDispatched
    /\ pc = "done"
    /\ val.shape = "list"
    /\ Len(val.rows) = 2
    /\ Occurrences("executemany") = 1
    /\ SubmissionCount = 1
    /\ result.type = "int"

(***************************************************************************)
(* Properties of the schema bootstrap of the file-based wrappers           *)
(***************************************************************************)
\* C14: over any sequence of select, query and select_pragma_info calls on a
\* file-based wrapper constructed with a script, the script is executed at
\* most once.
C14_BootstrapAtMostOnce == bootstraps <= 1

\* a step of init_conn of a file-based wrapper that got its connection
SqliteConnected ==
    /\ pc = "init_conn"
    /\ variant \in FileBased
    /\ openConns' = openConns + 1

\* the step obtained a connection and its table-count query raised: the
\* call ends there, with the driver's error
TableCountFailed ==
    /\ SqliteConnected
    /\ result'.kind = "raise"
    /\ events' = Append(events, "connect_ok")

\* C15: init_conn of a file-based wrapper executes the script only when the
\* database holds fewer than 2 tables and a script was supplied, and then it
\* executes it (once) whenever the table count could be read; on a database
\* with 2 or more tables, or without a script, connecting executes no script
\* and leaves the number of tables as it was.
C15_BootstrapFrame ==
    [][SqliteConnected =>
          IF tables < TableThreshold /\ sql_script # 0
          THEN \/ bootstraps' = bootstraps + 1
               \/ TableCountFailed /\ bootstraps' = bootstraps /\ tables' = tables
          ELSE /\ bootstraps' = bootstraps
               /\ tables' = tables
               /\ \A i \in 1..Len(events') : events'[i] # "executescript"]_vars

\* connected to a database of 2 tables with a script supplied: no script run
C15_Witness ==
    /\ variant \in FileBased
    /\ pc = "cursor"
    /\ sql_script # 0
    /\ tables = TableThreshold
    /\ bootstraps = 0
    /\ events = <<"connect_ok">>

(***************************************************************************)
(* Properties of call_proc                                                 *)
(***************************************************************************)
CallProcDone == pc = "done" /\ op = "call_proc" /\ Occurrences("cursor") = 1

\* where result set k starts in the flat list
Offset(sets, k) == SumSeq([j \in 1..(k - 1) |-> Len(sets[j])])

\* C16: a call_proc of MysqlDataManager that got its cursor calls the
\* procedure once. When nothing fails it then commits, closes and returns
\* one flat list: the rows of the first result set, then those of the second,
\* and so on (the empty list when there is no result set). When the driver
\* raises, call_proc raises that error and returns no list.
C16_CallProc ==
    CallProcDone =>
       /\ Occurrences("callproc") = 1
       /\ IF Occurrences("error") = 0
          THEN LET sets == ResultSets(val.sets, storeAtCall)
                   n == Len(events)
               IN /\ result.kind = "return"
                  /\ result.type = "list"
                  /\ Len(result.rows) = Offset(sets, val.sets + 1)
                  /\ \A k \in 1..val.sets : \A i \in 1..Len(sets[k]) :
                        result.rows[Offset(sets, k) + i] = sets[k][i]
                  /\ SubSeq(events, n - 4, n)
                        = <<"cursor", "callproc", "stored_results", "commit", "close">>
                  /\ Occurrences("commit") = 1
          ELSE /\ result = Raise("DriverError")
               /\ result.rows = <<>>

\* two result sets of one row each, returned as one list in set order
C16_Witness ==
    /\ CallProcDone
    /\ val.sets = 2
    /\ storeAtCall = <<2, 1>>
    /\ result.type = "list"
    /\ result.rows = <<1, 2>>

(***************************************************************************)
(* Properties of the log                                                   *)
(***************************************************************************)
\* C17 as stated: when init_conn is over, every failed connect attempt i has
\* a log record that carries i and the attempts remaining after it.
C17_Original ==
    GateDone =>
       \A i \in 1..Occurrences("connect_fail") :
          \E j \in 1..Len(log) : log[j].a = i /\ log[j].b = attempts - i

\* C17 amended: every failed connect attempt makes exactly one logger call.
\* The i-th failure with i below attempts logs "Retrying" with the attempt
\* index i and attempts - 1 (the same number in every record), at error level
\* in classes.py and at info level in the two other wrappers, and the wait of
\* that attempt follows it.  The failure of the attempt whose index equals
\* attempts logs, for attempts up to 256, "Failed to connect" at error level
\* with no number, and init_conn ends without a connection.  For attempts of
\* 257 or more the identity test can be false for that attempt as well: the
\* failure then logs "Retrying" like the others and waits, and init_conn
\* returns None with no "Failed to connect" record.
C17_RetryRecords ==
    (op = "init_conn") =>
       /\ Len(log) = Occurrences("connect_fail")
       /\ \A i \in 1..Len(log) :
             /\ \/ /\ log[i].text = "Retrying"
                   /\ log[i].a = i
                   /\ log[i].b = attempts - 1
                   /\ log[i].level = IF variant = ClassesMysqlV THEN "ERROR" ELSE "INFO"
                   /\ Len(waits) >= i
                   /\ waits[i] = Backoff(delay, i)
                \/ /\ log[i] = LogRec("ERROR", "Failed to connect", 0, 0)
                   /\ i = Len(log)
                   /\ i = attempts
                   /\ Len(waits) = i - 1
                   /\ GateDone
                   /\ result.type # "conn"
             /\ i < attempts => log[i].text = "Retrying"
             /\ (i = attempts /\ attempts <= SmallIntMax) =>
                   log[i].text = "Failed to connect"
             /\ (i = attempts /\ log[i].text = "Retrying") =>
                   /\ attempts > SmallIntMax
                   /\ Len(log) = attempts
                   /\ GateDone => result = ReturnNone

\* three failures out of three attempts: "Retrying (1/2)", "Retrying (2/2)",
\* then "Failed to connect"
C17_Witness ==
    /\ GateDone
    /\ attempts = 3
    /\ Len(log) = 3
    /\ log[1].a = 1 /\ log[1].b = 2
    /\ log[2].a = 2 /\ log[2].b = 2
    /\ log[3].text = "Failed to connect"

ErrorRecords == Cardinality({i \in 1..Len(log) : log[i].level = "ERROR"})

\* C18: when an operation has returned or raised, each connect failure and a
\* failed statement execution of it has its error-level record in the log,
\* and none of its records is below error level.
C18_FailuresLogged ==
    (pc = "done") =>
       /\ ErrorRecords >= Occurrences("connect_fail") + (IF ExecFailed THEN 1 ELSE 0)
       /\ \A i \in 1..Len(log) : log[i].level = "ERROR"

(***************************************************************************)
(* Properties of the connection handling of MysqlDataManager               *)
(***************************************************************************)
\* a call of MysqlDataManager that got its connection and its cursor is over
CursorCallDone ==
    /\ variant = MysqlDataManagerV
    /\ pc = "done"
    /\ op \in {"select", "query", "call_proc"}
    /\ Occurrences("cursor") = 1

\* C20: in MysqlDataManager a select, query or call_proc that got a
\* connection and a cursor closes the connection exactly once, as its last
\* driver call, on every exit path: after the commit when nothing failed, and
\* after the failure when execution, fetch or commit raised, in which case
\* the call raises the error.
C20_ClosedOnEveryPath ==
    CursorCallDone =>
       LET n == Len(events)
       IN /\ Occurrences("close") = 1
          /\ events[n] = "close"
          /\ Occurrences("connect_ok") = 1
          /\ IF Occurrences("error") = 0
             THEN /\ result.kind = "return"
                  /\ op \in {"query", "call_proc"} =>
                        /\ events[n - 1] = "commit"
                        /\ Occurrences("commit") = 1
             ELSE /\ events[n - 1] = "error"
                  /\ result = Raise("DriverError")

\* the commit of a query raised: closed once, error raised
C20_Witness ==
    /\ CursorCallDone
    /\ op = "query"
    /\ events = <<"connect_ok", "cursor", "execute_params", "commit", "error", "close">>
    /\ result = Raise("DriverError")

(***************************************************************************)
(* Properties of concurrent callers (ConcSpec)                             *)
(***************************************************************************)
\* the calls that hold a handle
Holding ==
    {t \in Threads : tpc[t] \in {"list_tables", "init_database", "caller", "cursor",
                                 "execute", "finish", "close"}}

\* C19: under every interleaving of concurrent calls on one instance (select,
\* query and call_proc, and with them init_conn, select_pragma_info and
\* init_database), a call that got a connection holds a handle it
\* opened itself, no two calls hold the same handle, every handle was used,
\* committed and closed only by the thread whose call opened it, and no step
\* of any call changes an attribute of the instance.
C19_OwnConnection ==
    /\ [](/\ \A t \in Holding :
               /\ HandleOf(t) \in 1..Len(conns)
               /\ conns[HandleOf(t)].opener = t
               /\ conns[HandleOf(t)].open
          /\ \A t \in Holding : \A u \in Holding : t # u => HandleOf(t) # HandleOf(u)
          /\ \A h \in 1..Len(conns) : conns[h].users \subseteq {conns[h].opener})
    /\ [][sql_script' = sql_script /\ variant' = variant]_vars

\* two calls in flight at once, each past a driver call on its own handle
C19_Witness ==
    /\ tpc[1] = "finish"
    /\ tpc[2] = "execute"
    /\ Len(conns) = 2
    /\ conns[1].open /\ conns[2].open
    /\ conns[tmydb[1]].users = {1}
    /\ conns[tmydb[2]].users = {2}
    /\ tmydb[1] = 2

(***************************************************************************)
(* Properties of the failure paths                                         *)
(***************************************************************************)
QueryFailed == pc = "done" /\ op = "query" /\ ExecFailed

\* C21: a query whose statement execution failed issued no commit and left
\* the committed table as it was when the call started, also when rows of a
\* list payload before the failing one had been applied inside the
\* connection's transaction; a select on a new connection returns the
\* committed table, so it shows none of those rows.
C21_FailedQueryLeavesStore ==
    /\ QueryFailed =>
          /\ store = storeAtCall
          /\ Occurrences("commit") = 0
          /\ result.type # "int"
    /\ SelectReturned => result.rows = storeAtCall

\* a list payload failing at its second row: the first row is applied in the
\* transaction and not committed
C21_Witness ==
    /\ QueryFailed
    /\ val.shape = "list"
    /\ Len(val.rows) = 2
    /\ pending # storeAtCall
    /\ store = storeAtCall

ConnectorManagers == {MysqlConnectorManagerV, ClassesMysqlV}

\* C22: in both MysqlConnectorManager variants, a select or query whose
\* init_conn used up its attempts and returned None goes on to mydb.cursor()
\* and ends there with the error that call raises: no cursor is obtained, no
\* statement is executed, nothing is committed, and the call returns neither
\* a list nor a count nor None.
C22_NoneConnectionRaises ==
    (variant \in ConnectorManagers /\ op \in {"select", "query"} /\ mydb = "None") =>
       /\ pc \in {"cursor", "done"}
       /\ connectCalls = attempts
       /\ Occurrences("connect_ok") = 0
       /\ Occurrences("cursor") = 0
       /\ SubmissionCount = 0
       /\ Occurrences("commit") = 0
       /\ store = storeAtCall
       /\ pc = "done" => result = Raise("AttributeError")

C22_Witness ==
    /\ variant = ClassesMysqlV
    /\ pc = "done"
    /\ op = "query"
    /\ mydb = "None"
    /\ connectCalls = DefaultAttempts
    /\ result = Raise("AttributeError")

\* the bootstrap script of the current call failed
ScriptFailed ==
    /\ op \in {"select", "query", "select_pragma_info"}
    /\ \E i \in 1..(Len(events) - 1) : events[i] = "executescript" /\ events[i + 1] = "error"

\* what SqliteDataManager does with a failed script: one error record, no
\* raise, the connection handed to the caller, whose statement is submitted
ScriptFailureSwallowed ==
    /\ log # <<>>
    /\ log[1] = LogRec("ERROR", "init database", 0, 0)
    /\ mydb = "conn"
    /\ pc \in {"cursor", "execute", "fetch", "commit", "close", "done"}
    /\ pc \in {"fetch", "commit", "close", "done"} => Occurrences("cursor") = 1
    /\ (pc = "done" /\ Dispatch(val) # "skip") => SubmissionCount = 1

\* C23 as stated: in SqliteDataManager a failed bootstrap script is logged
\* and not raised, the call goes on with its own statement, and the table
\* count is still below 2 (so that the next operation runs the script again).
C23_Original ==
    (variant = SqliteDataManagerV /\ ScriptFailed) =>
       /\ ScriptFailureSwallowed
       /\ tables < TableThreshold

\* C23 amended: in SqliteDataManager a failed bootstrap script is logged and
\* not raised and the call goes on with its own statement; an operation
\* after a run of the script, once it is connected and has read the table
\* count, runs the script again exactly when fewer than 2 tables exist by
\* then (the statements before the failing one have taken effect).
C23_ScriptFailure ==
    /\ []((variant = SqliteDataManagerV /\ ScriptFailed) => ScriptFailureSwallowed)
    /\ [][(variant = SqliteDataManagerV /\ SqliteConnected /\ ~TableCountFailed
             /\ bootstraps >= 1 /\ sql_script # 0) =>
             ((bootstraps' = bootstraps + 1) <=> (tables < TableThreshold))]_vars

\* the script failed in two operations in a row, and the second one still
\* submitted its statement
C23_Witness ==
    /\ variant = SqliteDataManagerV
    /\ pc = "done"
    /\ calls = 2
    /\ bootstraps = 2
    /\ tables = 0
    /\ ScriptFailed
    /\ ScriptFailureSwallowed
    /\ SubmissionCount = 1

\* C24: a query whose value argument is truthy and neither a list nor a
\* tuple never submits a statement; when the connect and the commit go
\* through, it gets its cursor, commits, closes and returns the row count the
\* cursor had from the start, without raising, and the table is unchanged.
C24_UnmatchedPayload ==
    (op = "query" /\ val.shape = "other") =>
       /\ SubmissionCount = 0
       /\ store = storeAtCall
       /\ (pc = "done" /\ Occurrences("cursor") = 1 /\ Occurrences("error") = 0) =>
             /\ SubSeq(events, Len(events) - 2, Len(events))
                   = <<"cursor", "commit", "close">>
             /\ result.kind = "return"
             /\ result.type = "int"
             /\ result.int = rowcount
             /\ rowcount = -1

C24_Witness ==
    /\ variant = MysqlDataManagerV
    /\ pc = "done"
    /\ op = "query"
    /\ val.shape = "other"
    /\ sqlstring.kind = "insert"
    /\ events = <<"connect_ok", "cursor", "commit", "close">>
    /\ result.type = "int"
    /\ result.int = -1

\* C25: init_conn called with an attempt bound N <= 0 never calls connect,
\* never waits and never logs, and returns None without raising, in each of
\* the three networked wrappers, MysqlDataManager included.
C25_NoAttempts ==
    (op = "init_conn" /\ attempts <= 0) =>
       /\ connectCalls = 0
       /\ events = <<>>
       /\ waits = <<>>
       /\ log = <<>>
       /\ openConns = 0
       /\ pc = "done" => result = ReturnNone

C25_Witness ==
    /\ GateDone
    /\ variant = MysqlDataManagerV
    /\ attempts = 0
    /\ failPlan = 0
    /\ connectCalls = 0
    /\ result = ReturnNone

====
